---- MODULE Spec2Model ----
(***************************************************************************)
(* A model of the grammar sampling engine (Grammar, cfg.py) and of the     *)
(* search-space abstraction (SearchSpace, search_space.py) with its        *)
(* hyperparameter primitives.                                              *)
(*                                                                         *)
(* Part I  : SearchSpace.sample / mutate / crossover over a heap of        *)
(*           parameter objects (specification SpecSpace).                  *)
(* Part II : Grammar construction, the three samplers and the tree string  *)
(*           utilities (specification SpecGrammar).                        *)
(* Part III: one FloatHyperparameter or CategoricalParameter object with   *)
(*           its arithmetic (specification SpecParam).                     *)
(* Part IV : the proposal loop of BayesianOptimization.get_config_and_ids  *)
(*           (specification SpecBO).                                       *)
(***************************************************************************)
EXTENDS Integers, Sequences, FiniteSets, TLC

VARIABLES
    heap,      \* the parameter objects: heap[id] = [kind, value, origin]
    spaces,    \* the SearchSpace instances: [keys, hps] (an OrderedDict)
    last,      \* the arguments and the return value of the last call
    gram,      \* the Grammar object: 0 before construction, else its rule set
    flags,     \* [convergent, depth_constrained, depth_constraints]
    pcount,    \* the default argument of _convergent_sampler (one shared dict)
    depth_information,  \* the dict the running depth-constrained call uses
    stack,     \* the frames of the running recursive sampler
    call,      \* the running top-level call, or [fn |-> "none"]
    ret,       \* the outcome of the last top-level call
    rs,        \* the outcome of the last remove_subtree call
    out,       \* the last call of another tree utility or of generator
    param,     \* one FloatHyperparameter or CategoricalParameter object
    nb,        \* the running CategoricalParameter._get_neighbours call
    pres,      \* the outcome of the last call on param
    bo         \* the BayesianOptimization object and its running call

\* The parameter object and the optimizer.
pVars == <<param, nb, pres, bo>>

\* What the Grammar operations leave alone.
ssVars == <<heap, spaces, last, param, nb, pres, bo>>

gVars == <<gram, flags, pcount, depth_information, stack, call, ret, rs,
           out>>

vars == <<heap, spaces, last, gram, flags, pcount, depth_information, stack,
          call, ret, rs, out, param, nb, pres, bo>>

(***************************************************************************)
(* Bounds of the model.                                                    *)
(***************************************************************************)
MaxPatience == 2
RecursionLimit == 3
MaxLeak == 3
MaxN == 3
MaxDepth == 4
Precision == 5
GridDen == 4
MaxNeighbours == 2

\* The largest patience of the optimizer.
MaxBOPatience == 3

(***************************************************************************)
(* Helpers.                                                                *)
(***************************************************************************)
Min(a, b) == IF a <= b THEN a ELSE b

Range(s) == {s[i] : i \in 1..Len(s)}

\* None, the value of a parameter that was never sampled.
None == -1

\* The keys of the pipeline space, in insertion order.
KeyNames == <<"a", "b">>

\* float: FloatHyperparameter; categorical: CategoricalParameter; other: a
\* parameter type whose crossover is implemented (it returns two children or
\* raises), e.g. a graph grammar parameter.
Kinds == {"float", "categorical", "other"}

\* The values a sampled parameter can hold (two points of its domain).
Values == {0, 1}

(***************************************************************************)
(* SearchSpace: construction and views.                                    *)
(***************************************************************************)

\* dict(zip(keys, values)) followed by SearchSpace(**...): zip stops at the
\* shorter of the two sequences; the OrderedDict keeps the insertion order.
SearchSpace(keys, values) ==
    LET n == Min(Len(keys), Len(values))
    IN  [keys |-> SubSeq(keys, 1, n), hps |-> SubSeq(values, 1, n)]

\* SearchSpace.get_array: a new list of the parameter objects, in key order.
get_array(self) == self.hps

\* self.hyperparameters[key] succeeds iff the key is present.
HasKey(self, key) == key \in Range(self.keys)

Lookup(self, key) ==
    self.hps[CHOOSE i \in 1..Len(self.keys) : self.keys[i] = key]

\* SearchSpace._num_hps, set from len(hyperparameters) at construction.
num_hps(self) == Len(self.keys)

(***************************************************************************)
(* Parameter operations as SearchSpace sees them.                          *)
(***************************************************************************)

\* hp.mutate() of a float parameter that was never sampled fails on every
\* call (_transform computes None - lower); every other mutate may return a
\* child or raise (ValueError "Parent is the same as child!").
MutateAlwaysFails(hp) == hp.kind = "float" /\ hp.value = None

\* The child of hp.mutate(): a copy of the parameter with another value.
MutateChild(hp, id, v) == [kind |-> hp.kind, value |-> v, origin |-> {id}]

\* FloatHyperparameter.crossover raises NotImplementedError.
FloatCrossover == "NotImplementedError"

\* CategoricalParameter.crossover is `pass`: it returns None.
CategoricalCrossover == "None"

\* The outcome of the statement
\*     child1, child2 = hyperparameter.crossover(config2.hyperparameters[key])
\* on its `attempt`-th execution for a parameter: "children" when two children
\* were unpacked, "NotImplementedError", or "Exception" (any other exception;
\* unpacking None raises TypeError). A parameter of kind "other" fails its
\* first nfail calls.
CrossoverCall(kind, attempt, nfail) ==
    CASE kind = "float" -> FloatCrossover
      [] kind = "categorical" ->
            IF CategoricalCrossover = "None" THEN "Exception" ELSE "children"
      [] OTHER -> IF attempt > nfail THEN "children" ELSE "Exception"

(***************************************************************************)
(* SearchSpace._smbo_mutation and SearchSpace.mutate.                      *)
(***************************************************************************)

\* The while loop of _smbo_mutation: hp.mutate() fails on its first nfail
\* calls; `fresh` is the child a successful call returns.
RECURSIVE SmboRetry(_, _, _, _, _, _)
SmboRetry(new_config, idx, patience, nfail, fresh, calls) ==
    IF patience > 0
    THEN IF calls + 1 > nfail
         THEN [config |-> [new_config EXCEPT ![idx] = fresh],
               calls |-> calls + 1, mutated |-> TRUE]
         ELSE SmboRetry(new_config, idx, patience - 1, nfail, fresh, calls + 1)
    ELSE [config |-> new_config, calls |-> calls, mutated |-> FALSE]

\* Mutant: the loop runs while patience >= 0 (one attempt too many).
smbo_mutation_extra_attempt(self, patience, idx, nfail, fresh) ==
    LET r == SmboRetry(get_array(self), idx, patience + 1, nfail, fresh, 0)
    IN  [self |-> self, config |-> r.config, calls |-> r.calls,
         mutated |-> r.mutated]

\* Mutant: new_config aliases the parent's own mapping, so the assignment
\* new_config[idx] = ... writes into the parent.
smbo_mutation_aliased(self, patience, idx, nfail, fresh) ==
    LET r == SmboRetry(get_array(self), idx, patience, nfail, fresh, 0)
    IN  [self |-> [self EXCEPT !.hps = r.config], config |-> r.config,
         calls |-> r.calls, mutated |-> r.mutated]

\* _smbo_mutation(self, patience) with idx drawn by random.randint: the
\* returned array, and self as the call leaves it.
smbo_mutation(self, patience, idx, nfail, fresh) ==
    LET r == SmboRetry(get_array(self), idx, patience, nfail, fresh, 0)
    IN  [self |-> self, config |-> r.config, calls |-> r.calls,
         mutated |-> r.mutated]

(***************************************************************************)
(* SearchSpace._simple_crossover and SearchSpace.crossover.                *)
(***************************************************************************)

\* The while loop for one selected key. `appended` says what the loop
\* appended to new_config1/new_config2: "children", "parents" or "none".
\* A key missing from config2 raises KeyError inside the try block.
RECURSIVE CrossoverRetry(_, _, _, _, _)
CrossoverRetry(kind, haskey, patience, nfail, calls) ==
    IF patience > 0
    THEN IF ~haskey
         THEN CrossoverRetry(kind, haskey, patience - 1, nfail, calls)
         ELSE LET r == CrossoverCall(kind, calls + 1, nfail)
              IN  CASE r = "children" ->
                         [patience |-> patience, calls |-> calls + 1,
                          appended |-> "children"]
                    [] r = "NotImplementedError" ->
                         [patience |-> patience, calls |-> calls + 1,
                          appended |-> "parents"]
                    [] OTHER ->
                         CrossoverRetry(kind, haskey, patience - 1, nfail,
                                        calls + 1)
    ELSE [patience |-> patience, calls |-> calls, appended |-> "none"]

\* The state the for loop of _simple_crossover carries: the two arrays, the
\* patience left, and for each key visited what was done (log).
CrossoverStart(patience) ==
    [new_config1 |-> <<>>, new_config2 |-> <<>>, patience |-> patience,
     made |-> <<>>, log |-> <<>>, raised |-> FALSE]

\* The for loop of _simple_crossover from the i-th key on. sel[i] is the
\* outcome of `hasattr(...) and np.random.random() < probability`; objects
\* created by successful crossovers get the ids base+1, base+2, ...
RECURSIVE simple_crossover_from(_, _, _, _, _, _, _, _)
simple_crossover_from(h, self, config2, i, st, sel, fails, base) ==
    IF i > Len(self.keys) \/ st.raised THEN st
    ELSE
    LET key == self.keys[i]
        hp == self.hps[i]
        haskey == HasKey(config2, key)
        hp2 == IF haskey THEN Lookup(config2, key) ELSE 0
        c1 == base + 2 * Len(st.made) + 1
        c2 == base + 2 * Len(st.made) + 2
    IN  IF sel[i]
        THEN LET r == CrossoverRetry(h[hp].kind, haskey, st.patience,
                                     fails[i], 0)
                 entry == [key |-> key, calls |-> r.calls,
                           appended |-> r.appended, given |-> st.patience]
             IN  simple_crossover_from(h, self, config2, i + 1,
                   CASE r.appended = "children" ->
                          [st EXCEPT !.new_config1 = Append(@, c1),
                                     !.new_config2 = Append(@, c2),
                                     !.patience = r.patience,
                                     !.made = Append(@, <<hp, hp2>>),
                                     !.log = Append(@, entry)]
                     [] r.appended = "parents" ->
                          [st EXCEPT !.new_config1 = Append(@, hp),
                                     !.new_config2 = Append(@, hp2),
                                     !.patience = r.patience,
                                     !.log = Append(@, entry)]
                     [] OTHER ->
                          [st EXCEPT !.patience = r.patience,
                                     !.log = Append(@, entry)],
                   sel, fails, base)
        ELSE IF haskey
             THEN simple_crossover_from(h, self, config2, i + 1,
                    [st EXCEPT !.new_config1 = Append(@, hp),
                               !.new_config2 = Append(@, hp2),
                               !.log = Append(@,
                                   [key |-> key, calls |-> 0,
                                    appended |-> "parents",
                                    given |-> st.patience])],
                    sel, fails, base)
             ELSE [st EXCEPT !.raised = TRUE]

simple_crossover(h, self, config2, patience, sel, fails, base) ==
    simple_crossover_from(h, self, config2, 1, CrossoverStart(patience),
                          sel, fails, base)

\* `last` before any call.
NoOp ==
    [op |-> "init", self |-> 0, other |-> 0, patience |-> 0, idx |-> 0,
     sel |-> <<>>, raised |-> FALSE, kids |-> <<>>, made |-> <<>>,
     calls |-> 0, fails |-> 0, mutated |-> FALSE, log |-> <<>>]

(***************************************************************************)
(* Part III. Numbers. A Python float is a rational [n, d] (d > 0, lowest   *)
(* terms). Each arithmetic operation is carried out either exactly         *)
(* (arith = "exact") or as binary floating point does it: the exact result *)
(* rounded to the nearest number with Precision significant bits, ties to  *)
(* even (arith = "float"; Python's float has 53 bits).                     *)
(***************************************************************************)

Abs(x) == IF x < 0 THEN -x ELSE x

RECURSIVE GCD(_, _)
GCD(a, b) == IF b = 0 THEN a ELSE GCD(b, a % b)

\* The rational n / d in lowest terms (d # 0).
Frac(n, d) ==
    LET g == GCD(Abs(n), Abs(d))
        sgn == IF d < 0 THEN -1 ELSE 1
    IN  [n |-> (sgn * n) \div g, d |-> (sgn * d) \div g]

Num(k) == [n |-> k, d |-> 1]

QAdd(a, b) == Frac(a.n * b.d + b.n * a.d, a.d * b.d)
QSub(a, b) == Frac(a.n * b.d - b.n * a.d, a.d * b.d)
QMul(a, b) == Frac(a.n * b.n, a.d * b.d)
QDiv(a, b) == Frac(a.n * b.d, a.d * b.n)
QLt(a, b) == a.n * b.d < b.n * a.d
QLe(a, b) == a.n * b.d <= b.n * a.d

\* a * 2^(-e) with 2^(Precision-1) <= a * 2^(-e) < 2^Precision, for a > 0.
RECURSIVE Normalize(_, _)
Normalize(a, e) ==
    IF a.n >= (2 ^ Precision) * a.d THEN Normalize(Frac(a.n, 2 * a.d), e + 1)
    ELSE IF a.n < (2 ^ (Precision - 1)) * a.d
    THEN Normalize(Frac(2 * a.n, a.d), e - 1)
    ELSE [a |-> a, e |-> e]

\* The integer nearest to a >= 0, ties to the even one.
RoundHalfEven(a) ==
    LET m == a.n \div a.d
        twice_rest == 2 * (a.n - m * a.d)
    IN  IF twice_rest > a.d \/ (twice_rest = a.d /\ m % 2 = 1)
        THEN m + 1 ELSE m

\* The floating-point number nearest to q.
Round(q) ==
    IF q.n = 0 THEN q
    ELSE LET x == Normalize(Frac(Abs(q.n), q.d), 0)
             m == RoundHalfEven(x.a) * (IF q.n < 0 THEN -1 ELSE 1)
         IN  IF x.e >= 0 THEN Frac(m * (2 ^ x.e), 1)
                         ELSE Frac(m, 2 ^ (-x.e))

\* The result of one arithmetic operation whose exact value is q.
Fl(arith, q) == IF arith = "exact" THEN q ELSE Round(q)

\* int(q): truncation towards zero.
Trunc(q) == IF q.n >= 0 THEN q.n \div q.d ELSE -((-q.n) \div q.d)

\* Python's None as a value (it equals no number).
PyNone == [none |-> TRUE]

(***************************************************************************)
(* FloatHyperparameter (float.py). A parameter object is a record          *)
(* [kind, lower, upper, log, choices, value, arith].                       *)
(***************************************************************************)

\* FloatHyperparameter.__init__ (lower < upper; lower > 0 when log).
FloatHyperparameter(lower, upper, log, arith) ==
    [kind |-> "float", lower |-> lower, upper |-> upper, log |-> log,
     choices |-> <<>>, value |-> PyNone, arith |-> arith]

\* The domains of the float parameters under test.
FloatDomains ==
    { [lower |-> Num(0), upper |-> Num(1), log |-> FALSE],
      [lower |-> Num(-2), upper |-> Frac(15, 16), log |-> FALSE],
      [lower |-> Frac(1, 4), upper |-> Num(1), log |-> TRUE] }

\* The numbers the random generators return: a grid of step 1 / GridDen
\* and the given extra points, as numbers of the parameter's arithmetic.
Drawn(arith, lo, hi, extra) ==
    {Fl(arith, Frac(k, GridDen)) : k \in (lo * GridDen)..(hi * GridDen)}
        \cup extra

\* np.random.uniform(low=lower, high=upper): a number of [lower, upper]
\* (the upper end can be returned through rounding).
UniformDraws(self) ==
    {x \in Drawn(self.arith, -2, 2, {self.lower, self.upper}) :
        QLe(self.lower, x) /\ QLe(x, self.upper)}

\* math.exp(np.random.uniform(low=log(lower), high=log(upper))): exp and
\* log are inexact, the result can fall just outside [lower, upper].
LogUniformDraws(self) ==
    UniformDraws(self)
        \cup {Fl(self.arith, QSub(self.lower, Frac(1, 4 * GridDen))),
              Fl(self.arith, QAdd(self.upper, Frac(1, 4 * GridDen)))}

QMin(a, b) == IF QLe(a, b) THEN a ELSE b
QMax(a, b) == IF QLe(a, b) THEN b ELSE a

\* FloatHyperparameter.sample with `value` the number drawn (line 66).
Float_sample(self, value) ==
    [self EXCEPT !.value = QMin(self.upper, QMax(self.lower, value))]

\* FloatHyperparameter.__copy__: name, bounds and log, value None.
Float_copy(self) == [self EXCEPT !.value = PyNone]

\* FloatHyperparameter._transform, line 116 (value is a number).
Float_transform(self) ==
    [self EXCEPT !.value =
        Fl(self.arith, QDiv(Fl(self.arith, QSub(self.value, self.lower)),
                            Fl(self.arith, QSub(self.upper, self.lower))))]

\* FloatHyperparameter._inv_transform, line 122.
Float_inv_transform(self) ==
    [self EXCEPT !.value =
        Fl(self.arith,
           QAdd(Fl(self.arith,
                   QMul(self.value,
                        Fl(self.arith, QSub(self.upper, self.lower)))),
                self.lower))]

\* np.random.normal(self.value, std): any number; the grid reaches a
\* quarter beyond both ends of [0, 1].
NormalDraws(self) ==
    {Fl(self.arith, Frac(k, 4 * GridDen)) : k \in (-GridDen)..(5 * GridDen)}

\* `if n_val < 0 or n_val > 1: continue`, line 101.
Rejected(n_val) == QLt(n_val, Num(0)) \/ QLt(Num(1), n_val)

(***************************************************************************)
(* CategoricalParameter (categorical.py). The choices are the integers     *)
(* 0, 1, ... or a list with a repeated element.                            *)
(***************************************************************************)

CategoricalParameter(choices, arith) ==
    [kind |-> "categorical", lower |-> Num(0), upper |-> Num(0),
     log |-> FALSE, choices |-> choices, value |-> PyNone, arith |-> arith]

num_choices(self) == Len(self.choices)

\* The choice lists of the categorical parameters under test.
ChoiceLists ==
    { [i \in 1..1 |-> Num(i - 1)], [i \in 1..2 |-> Num(i - 1)],
      [i \in 1..3 |-> Num(i - 1)], <<Num(0), Num(0), Num(1)>> }

\* A longer list, for the rounding of index / num_choices.
LongChoiceList == [i \in 1..11 |-> Num(i - 1)]

\* Python's == on two values.
ValueEq(a, b) == a = b

Categorical_copy(self) == [self EXCEPT !.value = PyNone]

\* CategoricalParameter.sample with idx the index drawn by np.random.choice.
Categorical_sample(self, idx) == [self EXCEPT !.value = self.choices[idx + 1]]

\* list.index: the first position of the value (0-based), -1 for ValueError.
list_index(choices, value) ==
    IF \E i \in 1..Len(choices) : ValueEq(choices[i], value)
    THEN (CHOOSE i \in 1..Len(choices) :
             /\ ValueEq(choices[i], value)
             /\ \A j \in 1..(i - 1) : ~ValueEq(choices[j], value)) - 1
    ELSE -1

\* CategoricalParameter._transform, line 87 (value is one of the choices).
Categorical_transform(self) ==
    [self EXCEPT !.value =
        Fl(self.arith, QDiv(Num(list_index(self.choices, self.value)),
                            Num(num_choices(self))))]

\* CategoricalParameter._inv_transform, line 90: the choice at
\* int(value * num_choices) (PyNone stands for the IndexError).
Categorical_inv_transform(self) ==
    LET i == Trunc(Fl(self.arith, QMul(self.value, Num(num_choices(self)))))
    IN  IF i >= 0 /\ i < num_choices(self)
        THEN [self EXCEPT !.value = self.choices[i + 1]]
        ELSE [self EXCEPT !.value = PyNone]

(***************************************************************************)
(* The outcome of a call on the parameter object, and the running          *)
(* _get_neighbours call of a categorical parameter.                        *)
(***************************************************************************)

NoParam == [kind |-> "none"]

\* nb = [fn, caller, parent, num_neighbours, idx, seen, neighbours]: seen
\* holds the positions of self.choices that the shuffled copy has shown at
\* its first idx places.
NoNb == [fn |-> "none"]

NoPres ==
    [fn |-> "none", strategy |-> "", raised |-> "", child |-> PyNone,
     compared |-> PyNone, before |-> PyNone, between |-> PyNone,
     after |-> PyNone, num_neighbours |-> 0, idx |-> 0, neighbours |-> <<>>]

\* Faulty variant: the comparison with the parent is left out.
MutateOutcome_unchecked(strategy, parent_value, child_value) ==
    [NoPres EXCEPT !.fn = "mutate", !.strategy = strategy,
                   !.compared = parent_value, !.child = child_value]

\* The end of mutate (float.py lines 87-90, categorical.py lines 57-60):
\* ValueError when parent.value == child.value, else the child.
MutateOutcome(strategy, parent_value, child_value) ==
    IF ValueEq(parent_value, child_value)
    THEN [NoPres EXCEPT !.fn = "mutate", !.strategy = strategy,
                        !.compared = parent_value, !.raised = "ValueError"]
    ELSE [NoPres EXCEPT !.fn = "mutate", !.strategy = strategy,
                        !.compared = parent_value, !.child = child_value]

(***************************************************************************)
(* Part IV. BayesianOptimization.get_config_and_ids                        *)
(* (optimizer_hierarchy.py).                                               *)
(***************************************************************************)

NoBO == [fn |-> "none"]

(***************************************************************************)
(* Part II. Grammars. A symbol of a right-hand side is a Nonterminal       *)
(* object or a str (a terminal); names are single characters.              *)
(***************************************************************************)

NT(name) == [nt |-> TRUE, name |-> name]
Tm(name) == [nt |-> FALSE, name |-> name]

\* S -> S '+' T | T,  T -> '1' | '2'  (direct recursion).
ArithmeticGrammar ==
    [start |-> "S",
     prods |-> << [lhs |-> "S", rhs |-> <<NT("S"), Tm("+"), NT("T")>>],
                  [lhs |-> "S", rhs |-> <<NT("T")>>],
                  [lhs |-> "T", rhs |-> <<Tm("1")>>],
                  [lhs |-> "T", rhs |-> <<Tm("2")>>] >>]

\* S -> A | 'a',  A -> S  (indirect recursion).
IndirectGrammar ==
    [start |-> "S",
     prods |-> << [lhs |-> "S", rhs |-> <<NT("A")>>],
                  [lhs |-> "S", rhs |-> <<Tm("a")>>],
                  [lhs |-> "A", rhs |-> <<NT("S")>>] >>]

\* S -> B 'a' | 'a'  where the nonterminal B has no production.
DanglingGrammar ==
    [start |-> "S",
     prods |-> << [lhs |-> "S", rhs |-> <<NT("B"), Tm("a")>>],
                  [lhs |-> "S", rhs |-> <<Tm("a")>>] >>]

\* S -> T '+' T,  T -> '1' | '2'  (the start symbol has one production).
PairGrammar ==
    [start |-> "S",
     prods |-> << [lhs |-> "S", rhs |-> <<NT("T"), Tm("+"), NT("T")>>],
                  [lhs |-> "T", rhs |-> <<Tm("1")>>],
                  [lhs |-> "T", rhs |-> <<Tm("2")>>] >>]

\* S -> S 'a'  (every production of S recurses into S).
RecursiveOnlyGrammar ==
    [start |-> "S", prods |-> << [lhs |-> "S", rhs |-> <<NT("S"), Tm("a")>>] >>]

Grammars == {ArithmeticGrammar, IndirectGrammar, DanglingGrammar, PairGrammar,
             RecursiveOnlyGrammar}

\* The depth constraints a caller may configure for a grammar.
ConstraintChoices == { [x \in {"S"} |-> 1], [x \in {"S"} |-> 2] }

\* CFG.productions(lhs=symbol): the indices of the rules of `symbol`, in order.
RECURSIVE ProductionsFrom(_, _, _)
ProductionsFrom(g, lhs, i) ==
    IF i > Len(g.prods) THEN <<>>
    ELSE (IF g.prods[i].lhs = lhs THEN <<i>> ELSE <<>>)
         \o ProductionsFrom(g, lhs, i + 1)

productions(g, lhs) == ProductionsFrom(g, lhs, 1)

\* Grammar.__init__: the derived attributes.
non_unique_nonterminals(g) == [i \in 1..Len(g.prods) |-> g.prods[i].lhs]

nonterminals(g) == Range(non_unique_nonterminals(g))

\* str(individual) for every symbol of every right-hand side.
RhsNames(g) ==
    UNION { {g.prods[i].rhs[j].name : j \in 1..Len(g.prods[i].rhs)} :
            i \in 1..Len(g.prods) }

terminals(g) == RhsNames(g) \ nonterminals(g)

swappable_nonterminals(g) ==
    {x \in nonterminals(g) :
        Cardinality({i \in 1..Len(g.prods) : g.prods[i].lhs = x}) > 1}

\* Grammar.check_grammar: TRUE when it raises.
check_grammar_raises(g) ==
    \/ terminals(g) \cap nonterminals(g) # {}
    \/ \E x \in nonterminals(g) : Len(productions(g, x)) = 0

\* The names of the Nonterminal objects that occur in right-hand sides.
RhsNonterminals(g) ==
    UNION { {g.prods[i].rhs[j].name :
                j \in {k \in 1..Len(g.prods[i].rhs) : g.prods[i].rhs[k].nt}} :
            i \in 1..Len(g.prods) }

(***************************************************************************)
(* Tree strings: sequences of characters.                                  *)
(***************************************************************************)

\* str.split(" ").
RECURSIVE SplitFrom(_, _, _)
SplitFrom(str, i, cur) ==
    IF i > Len(str) THEN <<cur>>
    ELSE IF str[i] = " " THEN <<cur>> \o SplitFrom(str, i + 1, <<>>)
    ELSE SplitFrom(str, i + 1, Append(cur, str[i]))

Split(str) == SplitFrom(str, 1, <<>>)

\* " ".join(tokens).
RECURSIVE Join(_)
Join(tokens) ==
    IF Len(tokens) = 0 THEN <<>>
    ELSE IF Len(tokens) = 1 THEN tokens[1]
    ELSE tokens[1] \o <<" ">> \o Join(Tail(tokens))

\* A Python slice str[from:] and str[:to] (0-based, clamped).
SliceFrom(str, from) ==
    IF from >= Len(str) THEN <<>> ELSE SubSeq(str, from + 1, Len(str))

SliceTo(str, to) == SubSeq(str, 1, Min(to, Len(str)))

\* str.count(t + ")") for a one-character t.
CountClosing(str, t) ==
    Cardinality({i \in 1..(Len(str) - 1) : str[i] = t /\ str[i + 1] = ")"})

\* The index (0-based) where the bracket scan of remove_subtree stops: the
\* position of the first character that brings the counter to 0, or
\* len(right) when the loop runs to the end.
RECURSIVE ScanClose(_, _, _)
ScanClose(right, current_index, counter) ==
    IF current_index >= Len(right) THEN current_index
    ELSE LET char == right[current_index + 1]
             c == IF char = "(" THEN counter + 1
                  ELSE IF char = ")" THEN counter - 1 ELSE counter
         IN  IF c = 0 THEN current_index
             ELSE ScanClose(right, current_index + 1, c)

\* Grammar.remove_subtree(tree, index): (pre_subtree, removed, post_subtree).
remove_subtree(tree, index) ==
    LET split_tree == Split(tree)
        pre_subtree == Join(SliceTo(split_tree, index)) \o <<" ">>
        right == Join(SliceFrom(split_tree, index + 1))
        current_index == ScanClose(right, 0, 1)
    IN  [pre |-> pre_subtree,
         removed |-> split_tree[index + 1] \o <<" ">>
                     \o SliceTo(right, current_index + 1),
         post |-> SliceFrom(right, current_index + 1)]

\* The token indices (0-based) of a tree at which a nonterminal opens.
NonterminalIndices(tree) ==
    {i \in 0..(Len(Split(tree)) - 1) :
        Len(Split(tree)[i + 1]) > 0 /\ Split(tree)[i + 1][1] = "("}

\* The largest number of simultaneously open occurrences of nonterminal x
\* in a tree string (its deepest nesting of x along any root-to-leaf path).
RECURSIVE MaxOpenFrom(_, _, _, _, _, _)
MaxOpenFrom(tree, x, i, open, nopen, best) ==
    IF i > Len(tree) THEN best
    ELSE IF tree[i] = "("
    THEN LET n == IF tree[i + 1] = x THEN nopen + 1 ELSE nopen
         IN  MaxOpenFrom(tree, x, i + 2, Append(open, tree[i + 1]), n,
                         IF n > best THEN n ELSE best)
    ELSE IF tree[i] = ")"
    THEN MaxOpenFrom(tree, x, i + 1, SubSeq(open, 1, Len(open) - 1),
                     IF open[Len(open)] = x THEN nopen - 1 ELSE nopen, best)
    ELSE MaxOpenFrom(tree, x, i + 1, open, nopen, best)

MaxOpen(tree, x) == MaxOpenFrom(tree, x, 1, <<>>, 0, 0)

(***************************************************************************)
(* Dictionaries (dict / defaultdict(int)): functions on their key sets.    *)
(***************************************************************************)

EmptyDict == [k \in {} |-> 0]

Count(d, k) == IF k \in DOMAIN d THEN d[k] ELSE 0

\* d[k] += n on a defaultdict(int), or the if/else of lines 186-189.
Add(d, k, n) ==
    [x \in DOMAIN d \cup {k} |-> IF x = k THEN Count(d, k) + n ELSE d[x]]

RECURSIVE SumCounts(_)
SumCounts(d) ==
    IF DOMAIN d = {} THEN 0
    ELSE LET k == CHOOSE x \in DOMAIN d : TRUE
         IN  d[k] + SumCounts([x \in DOMAIN d \ {k} |-> d[x]])

(***************************************************************************)
(* The Grammar state machine. A recursive sampler runs as a stack of       *)
(* frames [symbol, prod, pos, tree]: prod = 0 until the production is      *)
(* drawn, pos is the next symbol of its right-hand side.                   *)
(***************************************************************************)

NoGrammar == [start |-> "", prods |-> <<>>]

NoCall == [fn |-> "none", kind |-> "none", pcount0 |-> EmptyDict,
           min_length |-> 0, max_length |-> 0]

\* ret.mode and ret.pcount0: the sampler that produced the outcome and the
\* counts its top-level _convergent_sampler call started with.
NoRet == [kind |-> "none", tree |-> <<>>, err |-> "", mode |-> "none",
          pcount0 |-> EmptyDict]

NoRs == [index |-> -1, tree |-> <<>>, pre |-> <<>>, removed |-> <<>>,
         post |-> <<>>]

\* out = [fn, args, res, err]: the function called, its arguments, and its
\* return value or the exception that left it.
NoOut == [fn |-> "none"]

\* Grammar.__init__, lines 35-37: the mode after construction.
Unconstrained ==
    [convergent |-> FALSE, depth_constrained |-> FALSE,
     constraints_set |-> FALSE, depth_constraints |-> EmptyDict]

\* Faulty variant: the opening bracket is left out.
NewFrame_unopened(symbol) ==
    [symbol |-> symbol, prod |-> 0, pos |-> 1, tree |-> <<symbol>>]

\* tree = "(" + str(symbol)
NewFrame(symbol) ==
    [symbol |-> symbol, prod |-> 0, pos |-> 1, tree |-> <<"(", symbol>>]

Top == stack[Len(stack)]

Idle == call.fn = "none"

\* The length windows a caller passes to sampler_restricted.
Windows == { [min_length |-> 0, max_length |-> 1],
             [min_length |-> 0, max_length |-> 2] }

GrammarInit ==
    /\ heap = <<>> /\ spaces = <<>> /\ last = NoOp
    /\ gram = NoGrammar
    /\ flags = Unconstrained
    /\ pcount = EmptyDict
    /\ depth_information = EmptyDict
    /\ stack = <<>>
    /\ call = NoCall
    /\ ret = NoRet
    /\ rs = NoRs /\ out = NoOut
    /\ param = NoParam /\ nb = NoNb /\ pres = NoPres /\ bo = NoBO

\* Grammar(...): CFG.__init__, the derived attributes, then check_grammar.
Construct(g) ==
    /\ UNCHANGED ssVars
    /\ gram = NoGrammar /\ ret.kind = "none"
    /\ IF check_grammar_raises(g)
       THEN /\ ret' = [NoRet EXCEPT !.kind = "raised", !.err = "check_grammar"]
            /\ gram' = gram
       ELSE /\ gram' = g
            /\ ret' = ret
    /\ UNCHANGED <<flags, pcount, depth_information, stack, call, rs, out>>

\* Faulty variant: `self.convergent = False` is left out.
set_depth_constraints_keeps_convergent(depth_constraints) ==
    /\ UNCHANGED ssVars
    /\ gram # NoGrammar /\ Idle
    /\ flags' = [convergent |-> flags.convergent, depth_constrained |-> TRUE,
                 constraints_set |-> TRUE,
                 depth_constraints |-> depth_constraints]
    /\ ret' = NoRet /\ rs' = NoRs /\ out' = NoOut
    /\ UNCHANGED <<gram, pcount, depth_information, stack, call>>

\* Grammar.set_depth_constraints, lines 41-44.
set_depth_constraints(depth_constraints) ==
    /\ UNCHANGED ssVars
    /\ gram # NoGrammar /\ Idle
    /\ flags' = [convergent |-> FALSE, depth_constrained |-> TRUE,
                 constraints_set |-> TRUE,
                 depth_constraints |-> depth_constraints]
    /\ ret' = NoRet /\ rs' = NoRs /\ out' = NoOut
    /\ UNCHANGED <<gram, pcount, depth_information, stack, call>>

set_convergent ==
    /\ UNCHANGED ssVars
    /\ gram # NoGrammar /\ Idle
    /\ flags' = [convergent |-> TRUE, depth_constrained |-> FALSE,
                 constraints_set |-> FALSE, depth_constraints |-> EmptyDict]
    /\ ret' = NoRet /\ rs' = NoRs /\ out' = NoOut
    /\ UNCHANGED <<gram, pcount, depth_information, stack, call>>

set_unconstrained ==
    /\ UNCHANGED ssVars
    /\ gram # NoGrammar /\ Idle
    /\ flags' = Unconstrained
    /\ ret' = NoRet /\ rs' = NoRs /\ out' = NoOut
    /\ UNCHANGED <<gram, pcount, depth_information, stack, call>>

\* An exception leaves the running call: the frames are unwound, nothing
\* else is undone. (Each mode change and each new call drops the outcome of
\* the call before it.)
Raised(err) ==
    /\ stack' = <<>>
    /\ call' = NoCall
    /\ ret' = [NoRet EXCEPT !.kind = "raised", !.err = err,
                            !.mode = call.kind, !.pcount0 = call.pcount0]

\* Grammar.sampler(n=1, depth_information=None): the checks of lines 119-136
\* and the first call of the sampler of the current mode.
sampler ==
    /\ UNCHANGED ssVars
    /\ gram # NoGrammar /\ Idle
    /\ flags.convergent => SumCounts(pcount) <= MaxLeak
    /\ rs' = NoRs /\ out' = NoOut
    /\ UNCHANGED <<gram, flags, pcount>>
    /\ IF flags.convergent /\ flags.depth_constrained
       THEN /\ Raised("Sample cannot be convergent and depth constrained")
            /\ UNCHANGED depth_information
       ELSE IF flags.convergent
       THEN /\ stack' = <<NewFrame(gram.start)>>
            /\ call' = [NoCall EXCEPT !.fn = "sampler", !.kind = "convergent",
                                      !.pcount0 = pcount]
            /\ ret' = NoRet
            /\ UNCHANGED depth_information
       ELSE IF flags.depth_constrained
       THEN IF ~flags.constraints_set
            THEN /\ Raised("Depth constraints are not set!")
                 /\ UNCHANGED depth_information
            ELSE /\ stack' = <<NewFrame(gram.start)>>
                 /\ call' = [NoCall EXCEPT !.fn = "sampler", !.kind = "depth"]
                 /\ ret' = NoRet
                 /\ depth_information' = EmptyDict
       ELSE /\ stack' = <<NewFrame(gram.start)>>
            /\ call' = [NoCall EXCEPT !.fn = "sampler", !.kind = "plain"]
            /\ ret' = NoRet
            /\ UNCHANGED depth_information

\* Grammar.sampler_restricted(n=1, max_length, cfactor, min_length): the
\* first _convergent_sampler call of its while loop.
sampler_restricted(w) ==
    /\ UNCHANGED ssVars
    /\ gram # NoGrammar /\ Idle
    /\ SumCounts(pcount) <= MaxLeak
    /\ stack' = <<NewFrame(gram.start)>>
    /\ call' = [NoCall EXCEPT !.fn = "sampler_restricted",
                              !.kind = "convergent", !.pcount0 = pcount,
                              !.min_length = w.min_length,
                              !.max_length = w.max_length]
    /\ ret' = NoRet
    /\ rs' = NoRs /\ out' = NoOut
    /\ UNCHANGED <<gram, flags, pcount, depth_information>>

\* The names of the Nonterminal symbols of a right-hand side
\* ([str(sym) for sym in production.rhs() if not isinstance(sym, str)]).
RhsNonterminalsOf(rhs) == {rhs[j].name : j \in {k \in 1..Len(rhs) : rhs[k].nt}}

\* Faulty variant: nothing is excluded.
DepthCandidates_unfiltered(g, lhs, constraints, info) == productions(g, lhs)

\* The productions depth-constrained sampling draws from (lines 190-201),
\* with depth_information already incremented for lhs.
DepthCandidates(g, lhs, constraints, info) ==
    IF lhs \in DOMAIN constraints /\ info[lhs] > constraints[lhs]
    THEN SelectSeq(productions(g, lhs),
                   LAMBDA p : lhs \notin RhsNonterminalsOf(g.prods[p].rhs))
    ELSE productions(g, lhs)

\* The start of a sampler call up to the drawn production: lines 183-209,
\* 230-234 and 267-288.
Enter ==
    /\ UNCHANGED ssVars
    /\ stack # <<>> /\ Top.prod = 0
    /\ UNCHANGED <<gram, flags, rs, out>>
    /\ LET lhs == Top.symbol
           info == Add(depth_information, lhs, 1)
           cands == IF call.kind = "depth"
                    THEN DepthCandidates(gram, lhs, flags.depth_constraints, info)
                    ELSE productions(gram, lhs)
       IN  /\ depth_information' =
                 IF call.kind = "depth" THEN info ELSE depth_information
           /\ IF Len(cands) = 0
              THEN /\ Raised(CASE call.kind = "depth" ->
                                    "There can be no word sampled!"
                               [] call.kind = "convergent" -> "IndexError"
                               [] OTHER -> "ZeroDivisionError")
                   /\ UNCHANGED pcount
              ELSE \E p \in Range(cands) :
                   /\ stack' = [stack EXCEPT ![Len(stack)].prod = p]
                   /\ pcount' = IF call.kind = "convergent"
                                THEN Add(pcount, p, 1) ELSE pcount
                   /\ UNCHANGED <<call, ret>>

\* One round of `for sym in production.rhs()`: a terminal is appended, a
\* nonterminal is a recursive call (RecursionError at the interpreter's
\* recursion limit).
Advance ==
    /\ UNCHANGED ssVars
    /\ stack # <<>> /\ Top.prod # 0
    /\ Top.pos <= Len(gram.prods[Top.prod].rhs)
    /\ UNCHANGED <<gram, flags, pcount, depth_information, rs, out>>
    /\ LET sym == gram.prods[Top.prod].rhs[Top.pos]
       IN  IF ~sym.nt
           THEN /\ stack' = [stack EXCEPT
                               ![Len(stack)].tree = @ \o <<" ", sym.name>>,
                               ![Len(stack)].pos = @ + 1]
                /\ UNCHANGED <<call, ret>>
           ELSE IF Len(stack) >= RecursionLimit
           THEN Raised("RecursionError")
           ELSE /\ stack' = Append(stack, NewFrame(sym.name))
                /\ UNCHANGED <<call, ret>>

\* length of sampler_restricted, lines 90-92.
RECURSIVE CountTerminals(_, _)
CountTerminals(tree, ts) ==
    IF ts = {} THEN 0
    ELSE LET t == CHOOSE x \in ts : TRUE
         IN  CountClosing(tree, t) + CountTerminals(tree, ts \ {t})

\* Mutant: the count is not taken back when the call returns.
pcount_on_return_kept(counts, kind, prod) == counts

\* The bookkeeping a sampler call undoes before it returns (lines 221, 307).
pcount_on_return(counts, kind, prod) ==
    IF kind = "convergent" THEN Add(counts, prod, -1) ELSE counts

depth_information_on_return(info, kind, lhs) ==
    IF kind = "depth" THEN Add(info, lhs, -1) ELSE info

\* The end of a sampler call: the count is taken back and the tree goes to
\* the caller, which is the frame below (it appends " " + tree + ")") or
\* the top-level function.
Return ==
    /\ UNCHANGED ssVars
    /\ stack # <<>> /\ Top.prod # 0
    /\ Top.pos > Len(gram.prods[Top.prod].rhs)
    /\ UNCHANGED <<gram, flags, rs, out>>
    /\ pcount' = pcount_on_return(pcount, call.kind, Top.prod)
    /\ depth_information' =
          depth_information_on_return(depth_information, call.kind, Top.symbol)
    /\ IF Len(stack) > 1
       THEN /\ stack' = [SubSeq(stack, 1, Len(stack) - 1) EXCEPT
                           ![Len(stack) - 1].tree = @ \o <<" ">> \o Top.tree
                                                      \o <<")">>,
                           ![Len(stack) - 1].pos = @ + 1]
            /\ UNCHANGED <<call, ret>>
       ELSE LET tree == Top.tree \o <<")">>
                length == CountTerminals(tree, terminals(gram))
            IN  IF call.fn = "sampler_restricted"
                   /\ ~(length <= call.max_length /\ length >= call.min_length)
                THEN /\ stack' = <<NewFrame(gram.start)>>
                     /\ call' = [call EXCEPT !.pcount0 = pcount']
                     /\ ret' = ret
                ELSE /\ stack' = <<>>
                     /\ call' = NoCall
                     /\ ret' = [NoRet EXCEPT !.kind = "tree", !.tree = tree,
                                             !.mode = call.kind,
                                             !.pcount0 = call.pcount0]

\* Grammar.remove_subtree(tree, index) on the tree sampled last, at the
\* index of a nonterminal occurrence.
RemoveSubtree(index) ==
    /\ UNCHANGED ssVars
    /\ Idle /\ ret.kind = "tree"
    /\ LET r == remove_subtree(ret.tree, index)
       IN  rs' = [index |-> index, tree |-> ret.tree, pre |-> r.pre,
                  removed |-> r.removed, post |-> r.post]
    /\ out' = NoOut
    /\ UNCHANGED <<gram, flags, pcount, depth_information, stack, call, ret>>

\* The tree utilities below are called on a tree as the sampler returned it.
\* They read the tree, the rule set and the mode, not the production counts.
Fresh ==
    /\ Idle /\ ret.kind = "tree" /\ rs = NoRs /\ out = NoOut
    /\ SumCounts(pcount) = 0

\* A Python slice tok[1:] of a token.
Rest(tok) == IF Len(tok) <= 1 THEN <<>> ELSE SubSeq(tok, 2, Len(tok))

\* [i for i in range(0, len(split_tree)) if i in kept], 0-based indices.
IndicesWhere(split_tree, kept) ==
    SelectSeq([i \in 1..Len(split_tree) |-> i - 1], LAMBDA i : i \in kept)

\* split_tree[i][1:] in names, for one-character names.
RestIn(split_tree, i, names) ==
    LET r == Rest(split_tree[i + 1]) IN Len(r) = 1 /\ r[1] \in names

\* swappable_indices of rand_subtree (lines 365-370).
swappable_indices(g, tree) ==
    LET split_tree == Split(tree)
    IN  IndicesWhere(split_tree,
            {i \in 0..(Len(split_tree) - 1) :
                RestIn(split_tree, i, swappable_nonterminals(g))})

\* np.random.randint(low, high): the values it can return, none (ValueError)
\* when low >= high.
randint(low, high) == low..(high - 1)

\* Grammar.rand_subtree(tree) on the tree sampled last.
RandSubtree ==
    /\ UNCHANGED ssVars
    /\ Fresh
    /\ LET idx == swappable_indices(gram, ret.tree)
           split_tree == Split(ret.tree)
       IN  IF randint(1, Len(idx)) = {}
           THEN out' = [fn |-> "rand_subtree", tree |-> ret.tree,
                        res |-> <<>>, err |-> "ValueError"]
           ELSE \E r \in randint(1, Len(idx)) :
                    out' = [fn |-> "rand_subtree", tree |-> ret.tree,
                            res |-> [symbol |-> Rest(split_tree[idx[r + 1] + 1]),
                                     index |-> idx[r + 1]],
                            err |-> ""]
    /\ rs' = NoRs
    /\ UNCHANGED <<gram, flags, pcount, depth_information, stack, call, ret>>

\* The number of ")" a token ends with (the rounds of `while split[-1] == ")"`).
RECURSIVE TrailingClose(_)
TrailingClose(tok) ==
    IF Len(tok) > 0 /\ tok[Len(tok)] = ")"
    THEN 1 + TrailingClose(SubSeq(tok, 1, Len(tok) - 1))
    ELSE 0

\* Faulty variant: the scopes are popped but their counts are kept.
RECURSIVE CloseScopes_kept(_, _, _)
CloseScopes_kept(helper_dict, q_nonterminals, k) ==
    IF k = 0 THEN [helper_dict |-> helper_dict, q_nonterminals |-> q_nonterminals]
    ELSE CloseScopes_kept(helper_dict,
             SubSeq(q_nonterminals, 1, Len(q_nonterminals) - 1), k - 1)

\* k rounds of lines 173-176: nt = q_nonterminals.pop(); helper_dict[nt] -= 1.
RECURSIVE CloseScopes(_, _, _)
CloseScopes(helper_dict, q_nonterminals, k) ==
    IF k = 0 THEN [helper_dict |-> helper_dict, q_nonterminals |-> q_nonterminals]
    ELSE CloseScopes(Add(helper_dict, q_nonterminals[Len(q_nonterminals)], -1),
             SubSeq(q_nonterminals, 1, Len(q_nonterminals) - 1), k - 1)

\* The loop of compute_depth_information from token i (1-based) on.
RECURSIVE DepthScan(_, _, _, _, _)
DepthScan(split_tree, i, helper_dict, q_nonterminals, depth_information_list) ==
    IF i > Len(split_tree) THEN depth_information_list
    ELSE LET split == split_tree[i]
         IN  IF split = <<>>
             THEN DepthScan(split_tree, i + 1, helper_dict, q_nonterminals,
                            depth_information_list)
             ELSE IF split[1] = "("
             THEN LET nt == Rest(split)[1]
                  IN  DepthScan(split_tree, i + 1, Add(helper_dict, nt, 1),
                          Append(q_nonterminals, nt),
                          [depth_information_list EXCEPT
                              ![i] = helper_dict[nt] + 1])
             ELSE LET c == CloseScopes(helper_dict, q_nonterminals,
                                       TrailingClose(split))
                  IN  DepthScan(split_tree, i + 1, c.helper_dict,
                                c.q_nonterminals, depth_information_list)

\* Grammar.compute_depth_information(tree) for a tree whose opened names are
\* all in self.nonterminals (helper_dict has no other key).
compute_depth_information(g, tree) ==
    LET split_tree == Split(tree)
    IN  DepthScan(split_tree, 1, [nt \in nonterminals(g) |-> 0], <<>>,
                  [i \in 1..Len(split_tree) |-> 0])

\* The nonterminal names a tree opens.
OpenedNames(tree) ==
    {Split(tree)[i + 1][2] : i \in NonterminalIndices(tree)}

ComputeDepthInformation ==
    /\ UNCHANGED ssVars
    /\ Fresh
    /\ out' = IF OpenedNames(ret.tree) \subseteq nonterminals(gram)
              THEN [fn |-> "compute_depth_information", tree |-> ret.tree,
                    res |-> compute_depth_information(gram, ret.tree),
                    err |-> ""]
              ELSE [fn |-> "compute_depth_information", tree |-> ret.tree,
                    res |-> <<>>, err |-> "KeyError"]
    /\ rs' = NoRs
    /\ UNCHANGED <<gram, flags, pcount, depth_information, stack, call, ret>>

\* Python values: a bool is an int (False == 0 and True == 1 compare equal).
PyBool(b) == [type |-> "bool", val |-> IF b THEN 1 ELSE 0]
PyInt(n) == [type |-> "int", val |-> n]
PyEq(a, b) == a.val = b.val

\* swappable_indicies of rand_subtree_fixed_head (lines 385-397).
swappable_indicies(g, depth_constrained, tree, head_node, depth_constraint) ==
    LET split_tree == Split(tree)
        depth_info == compute_depth_information(g, tree)
        tokens == 0..(Len(split_tree) - 1)
    IN  IF depth_constrained
        THEN IndicesWhere(split_tree,
                 {i \in tokens : /\ Rest(split_tree[i + 1]) = <<head_node>>
                                 /\ depth_info[i + 1] >= depth_constraint})
        ELSE IndicesWhere(split_tree,
                 {i \in tokens : Rest(split_tree[i + 1]) = <<head_node>>})

\* The head nodes and depth constraints a caller passes.
HeadNodes == {"S", "T"}
HeadDepths == {0, 2}

\* Grammar.rand_subtree_fixed_head(tree, head_node, c) on the tree sampled
\* last.
RandSubtreeFixedHead(head_node, head_node_depth_constraint) ==
    /\ UNCHANGED ssVars
    /\ Fresh
    /\ LET idx == swappable_indicies(gram, flags.depth_constrained, ret.tree,
                                     head_node, head_node_depth_constraint)
           call_ == [fn |-> "rand_subtree_fixed_head", tree |-> ret.tree,
                     head_node |-> head_node,
                     head_node_depth_constraint |-> head_node_depth_constraint]
       IN  IF flags.depth_constrained
              /\ ~(OpenedNames(ret.tree) \subseteq nonterminals(gram))
           THEN out' = call_ @@ [res |-> <<>>, err |-> "KeyError"]
           ELSE IF Len(idx) = 0
           THEN out' = call_ @@ [res |-> PyBool(FALSE), err |-> ""]
           ELSE \E r \in (IF Len(idx) > 1 THEN randint(1, Len(idx)) ELSE {0}) :
                    out' = call_ @@ [res |-> PyInt(idx[r + 1]), err |-> ""]
    /\ rs' = NoRs
    /\ UNCHANGED <<gram, flags, pcount, depth_information, stack, call, ret>>

\* The tree string of a node from the tree strings of its children.
RECURSIVE JoinKids(_)
JoinKids(kids) ==
    IF Len(kids) = 0 THEN <<>>
    ELSE <<" ">> \o Head(kids) \o JoinKids(Tail(kids))

NodeString(name, kids) == <<"(", name>> \o JoinKids(kids) \o <<")">>

\* Faulty variant: level 0 is expanded too.
CanExpand_zero(depth) == depth >= 0

\* `if depth > 0` of _generate_one (line 353).
CanExpand(depth) == depth > 0

\* _generate_all and _generate_one, as the lists the generators yield, in
\* order. Each fragment carries the derivation it was generated by: the
\* tree strings of the items (kids) and of the item (tree).
RECURSIVE generate_all(_, _, _)
RECURSIVE generate_one(_, _, _)
RECURSIVE generate_productions(_, _, _, _)

generate_all(g, items, depth) ==
    IF Len(items) = 0 THEN << [frag |-> <<>>, kids |-> <<>>] >>
    ELSE LET frags1 == generate_one(g, items[1], depth)
         IN  IF Len(frags1) = 0 THEN <<>>
             ELSE LET frags2 == generate_all(g, Tail(items), depth)
                      n2 == Len(frags2)
                  IN  [k \in 1..(Len(frags1) * n2) |->
                          LET frag1 == frags1[((k - 1) \div n2) + 1]
                              frag2 == frags2[((k - 1) % n2) + 1]
                          IN  [frag |-> frag1.frag \o frag2.frag,
                               kids |-> <<frag1.tree>> \o frag2.kids]]

\* for prod in self.productions(lhs=item): for frag in _generate_all(...)
generate_productions(g, item, prods, depth) ==
    IF Len(prods) = 0 THEN <<>>
    ELSE LET frags == generate_all(g, g.prods[Head(prods)].rhs, depth - 1)
         IN  [k \in 1..Len(frags) |->
                 [frag |-> frags[k].frag,
                  tree |-> NodeString(item.name, frags[k].kids)]]
             \o generate_productions(g, item, Tail(prods), depth)

generate_one(g, item, depth) ==
    IF ~CanExpand(depth) THEN <<>>
    ELSE IF item.nt
    THEN generate_productions(g, item, productions(g, item.name), depth)
    ELSE << [frag |-> <<item.name>>, tree |-> <<item.name>>] >>

\* itertools.islice(iter_prod, n)
islice(iter_prod, n) == SubSeq(iter_prod, 1, Min(n, Len(iter_prod)))

\* Grammar._generate(depth=depth, n=n): start is self.start(), `if n:`.
generate(g, depth, n) ==
    LET iter_prod == generate_all(g, <<NT(g.start)>>, depth)
    IN  IF n # 0 THEN islice(iter_prod, n) ELSE iter_prod

\* Grammar.generator(n, depth): the sentences, each " ".join(sentence);
\* out.trees holds the derivation of each. generator reads the rule set
\* only; it is called on a grammar before its next sample.
Generator(n, depth) ==
    /\ UNCHANGED ssVars
    /\ gram # NoGrammar /\ Idle /\ ret = NoRet /\ out = NoOut
    /\ SumCounts(pcount) = 0
    /\ LET sentences == generate(gram, depth, n)
       IN  out' = [fn |-> "generator", n |-> n, depth |-> depth,
                   res |-> [k \in 1..Len(sentences) |->
                              Join([j \in 1..Len(sentences[k].frag) |->
                                       <<sentences[k].frag[j]>>])],
                   trees |-> [k \in 1..Len(sentences) |->
                                sentences[k].kids[1]],
                   err |-> ""]
    /\ rs' = NoRs
    /\ UNCHANGED <<gram, flags, pcount, depth_information, stack, call, ret>>

GrammarNext ==
    \/ \E g \in Grammars : Construct(g)
    \/ \E c \in ConstraintChoices : set_depth_constraints(c)
    \/ set_convergent
    \/ set_unconstrained
    \/ sampler
    \/ \E w \in Windows : sampler_restricted(w)
    \/ Enter
    \/ Advance
    \/ Return
    \/ \E index \in NonterminalIndices(ret.tree) : RemoveSubtree(index)
    \/ RandSubtree
    \/ ComputeDepthInformation
    \/ \E head_node \in HeadNodes : \E c \in HeadDepths :
           RandSubtreeFixedHead(head_node, c)
    \/ \E n \in 0..MaxN : \E depth \in 0..MaxDepth : Generator(n, depth)

SpecGrammar == GrammarInit /\ [][GrammarNext]_vars

\* A running sampler call is synchronous code: it takes its next step.
FairSpecGrammar ==
    GrammarInit /\ [][GrammarNext]_vars /\ WF_vars(Enter \/ Advance \/ Return)

(***************************************************************************)
(* Claims about Grammar (checked under SpecGrammar).                       *)
(***************************************************************************)

\* C1: for every tree and every token index that points at a nonterminal
\* occurrence (index 0, the root, included), remove_subtree returns
\* (pre, removed, post) with pre + removed + post equal to the tree.
C1_RemoveSubtreeRoundTrip ==
    rs.index >= 0 => rs.pre \o rs.removed \o rs.post = rs.tree

\* C7: in every tree returned by depth-constrained sampling started with
\* empty depth information, no nonterminal with a configured bound b is
\* open more than b times at once.
C7_DepthBoundRespected ==
    ret.kind = "tree" /\ ret.mode = "depth" =>
        \A x \in DOMAIN flags.depth_constraints :
            MaxOpen(ret.tree, x) <= flags.depth_constraints[x]

\* C8: a grammar with a nonterminal that has no production is rejected at
\* construction, so no sampling call ever reaches a nonterminal whose
\* production list is empty.
C8_NoEmptyProductionList ==
    \A i \in 1..Len(stack) : Len(productions(gram, stack[i].symbol)) > 0

\* C9: when a top-level convergent sample completes, the usage count of
\* every production equals its value before the call.
C9_CountsRestored ==
    ret.kind = "tree" /\ ret.mode = "convergent" =>
        \A p \in 1..Len(gram.prods) : Count(pcount, p) = Count(ret.pcount0, p)

C9_Witness ==
    /\ ret.kind = "tree" /\ ret.mode = "convergent"
    /\ MaxOpen(ret.tree, "S") >= 2
    /\ SumCounts(ret.pcount0) > 0

\* C10: every top-level convergent sampling call, also one that follows a
\* call aborted by an exception, starts with all usage counts zero.
C10_CallsStartClean ==
    call.kind = "convergent" =>
        \A p \in 1..Len(gram.prods) : Count(call.pcount0, p) = 0

\* The token indices of a tree at which a swappable nonterminal opens.
SwappableOccurrences(tree) ==
    {i \in NonterminalIndices(tree) :
        Split(tree)[i + 1][2] \in swappable_nonterminals(gram)}

\* C11: rand_subtree returns (symbol, index) where token index opens the
\* swappable nonterminal symbol, and its possible results are exactly the
\* swappable occurrences other than token 0: each of them can be returned,
\* and the call returns a result whenever there is one.
C11_RandSubtreeResults ==
    /\ out.fn = "rand_subtree" /\ out.err = "" =>
            /\ out.res.index \in SwappableOccurrences(out.tree) \ {0}
            /\ out.res.symbol = <<Split(out.tree)[out.res.index + 1][2]>>
    /\ out.fn = "rand_subtree" /\ out.err # "" =>
            SwappableOccurrences(out.tree) \ {0} = {}
    /\ Fresh =>
            \A i \in SwappableOccurrences(ret.tree) \ {0} :
                ENABLED (RandSubtree /\ out'.err = "" /\ out'.res.index = i)

\* Does token i (0-based) open a nonterminal / the nonterminal x?
Opens(split_tree, i) ==
    Len(split_tree[i + 1]) > 0 /\ split_tree[i + 1][1] = "("

OpensName(split_tree, i, x) ==
    Opens(split_tree, i) /\ Rest(split_tree[i + 1]) = <<x>>

\* Scopes opened minus scopes closed by tokens j..m.
RECURSIVE Balance(_, _, _)
Balance(split_tree, j, m) ==
    IF j > m THEN 0
    ELSE (IF Opens(split_tree, j) THEN 1 ELSE 0)
         - TrailingClose(split_tree[j + 1]) + Balance(split_tree, j + 1, m)

\* The scope opened at token j is open when token i is read (j <= i).
StillOpen(split_tree, j, i) ==
    \A m \in j..(i - 1) : Balance(split_tree, j, m) >= 1

\* C17: compute_depth_information returns one entry per token: at a token
\* that opens X, the number of occurrences of X open at that point, this one
\* included; 0 at every other token.
C17_DepthInformation ==
    out.fn = "compute_depth_information" /\ out.err = "" =>
        LET split_tree == Split(out.tree)
        IN  /\ Len(out.res) = Len(split_tree)
            /\ \A i \in 0..(Len(split_tree) - 1) :
                  out.res[i + 1] =
                    IF Opens(split_tree, i)
                    THEN Cardinality({j \in 0..i :
                            /\ OpensName(split_tree, j, split_tree[i + 1][2])
                            /\ StillOpen(split_tree, j, i)})
                    ELSE 0

\* A tree with a nonterminal nested in itself and with a sibling occurrence
\* at the depth of an occurrence closed before it.
C17_Witness ==
    /\ out.fn = "compute_depth_information" /\ out.err = ""
    /\ \E i \in 1..Len(out.res) : out.res[i] = 2
    /\ LET split_tree == Split(out.tree)
       IN  \E j, k \in 0..(Len(split_tree) - 1) :
              /\ j < k /\ Opens(split_tree, j)
              /\ split_tree[j + 1] = split_tree[k + 1]
              /\ ~StillOpen(split_tree, j, k)
              /\ out.res[j + 1] = out.res[k + 1]

\* The occurrences rand_subtree_fixed_head may choose from: the tokens that
\* open head_node, in depth-constrained mode only those of depth >= c.
Eligible(tree, head_node, c) ==
    {i \in NonterminalIndices(tree) :
        /\ OpensName(Split(tree), i, head_node)
        /\ flags.depth_constrained =>
               compute_depth_information(gram, tree)[i + 1] >= c}

\* C12: rand_subtree_fixed_head returns the not-found sentinel exactly when
\* no occurrence is eligible; otherwise it returns the token index of an
\* eligible occurrence, and every eligible occurrence can be returned.
C12_FixedHeadResults ==
    /\ out.fn = "rand_subtree_fixed_head" /\ out.err = "" =>
          LET e == Eligible(out.tree, out.head_node,
                            out.head_node_depth_constraint)
          IN  /\ out.res.type = "bool" <=> e = {}
              /\ out.res.type = "int" => out.res.val \in e
    /\ Fresh =>
          \A head_node \in HeadNodes : \A c \in HeadDepths :
              \A i \in Eligible(ret.tree, head_node, c) :
                  ENABLED (/\ RandSubtreeFixedHead(head_node, c)
                           /\ out'.res = PyInt(i))

\* C13: a result of rand_subtree_fixed_head that stands for a found
\* occurrence never compares equal to the result returned when none exists.
C13_SentinelDistinct ==
    out.fn = "rand_subtree_fixed_head" /\ out.err = ""
        /\ out.res.type = "int" => ~PyEq(out.res, PyBool(FALSE))

\* A derivation tree string, parsed: node := "(" name { " " (node | terminal) } ")".
\* ParseNode reads the node at position i, ParseKids its children and its
\* closing bracket; ok says that every node read applies a production of g.
RECURSIVE ParseNode(_, _, _)
RECURSIVE ParseKids(_, _, _, _)

ParseNode(g, str, i) ==
    IF i + 1 > Len(str) \/ str[i] # "(" THEN [ok |-> FALSE, next |-> i, sym |-> ""]
    ELSE LET k == ParseKids(g, str, i + 2, <<>>)
         IN  [ok |-> /\ k.ok
                     /\ \E p \in Range(productions(g, str[i + 1])) :
                            g.prods[p].rhs = k.kids,
              next |-> k.next, sym |-> str[i + 1]]

ParseKids(g, str, i, kids) ==
    IF i > Len(str) THEN [ok |-> FALSE, next |-> i, kids |-> kids]
    ELSE IF str[i] = ")" THEN [ok |-> TRUE, next |-> i + 1, kids |-> kids]
    ELSE IF str[i] # " " \/ i + 1 > Len(str)
    THEN [ok |-> FALSE, next |-> i, kids |-> kids]
    ELSE IF str[i + 1] = "("
    THEN LET n == ParseNode(g, str, i + 1)
         IN  IF n.ok THEN ParseKids(g, str, n.next, Append(kids, NT(n.sym)))
             ELSE [ok |-> FALSE, next |-> i, kids |-> kids]
    ELSE ParseKids(g, str, i + 2, Append(kids, Tm(str[i + 1])))

\* str is exactly one derivation tree of g with root symbol root.
ValidTree(g, str, root) ==
    LET n == ParseNode(g, str, 1)
    IN  n.ok /\ n.next = Len(str) + 1 /\ n.sym = root

\* The leaves of a tree string, left to right.
Yield(str) ==
    LET split_tree == Split(str)
        leaves == SelectSeq([i \in 1..Len(split_tree) |-> i - 1],
                            LAMBDA i : ~Opens(split_tree, i))
    IN  [k \in 1..Len(leaves) |->
            LET tok == split_tree[leaves[k] + 1]
            IN  SubSeq(tok, 1, Len(tok) - TrailingClose(tok))]

\* The number of nodes on the longest root-to-leaf path, the leaf included.
RECURSIVE DeepestFrom(_, _, _, _)
DeepestFrom(str, i, open, best) ==
    IF i > Len(str) THEN best
    ELSE IF str[i] = "(" THEN DeepestFrom(str, i + 1, open + 1,
                                          IF open + 1 > best THEN open + 1 ELSE best)
    ELSE IF str[i] = ")" THEN DeepestFrom(str, i + 1, open - 1, best)
    ELSE DeepestFrom(str, i + 1, open, best)

Height(str) == DeepestFrom(str, 1, 0, 0) + 1

\* The names of the str symbols (terminals) of the right-hand sides.
TerminalNames(g) ==
    UNION { {g.prods[i].rhs[j].name :
                j \in {k \in 1..Len(g.prods[i].rhs) : ~g.prods[i].rhs[k].nt}} :
            i \in 1..Len(g.prods) }

\* C14: every sentence of generator(n, d) consists of terminal symbols only
\* and has a derivation from the start symbol of nesting depth at most d.
C14_GeneratedWithinDepth ==
    out.fn = "generator" =>
        \A k \in 1..Len(out.res) :
            /\ \A j \in 1..Len(Split(out.res[k])) :
                  \E t \in TerminalNames(gram) : Split(out.res[k])[j] = <<t>>
            /\ ValidTree(gram, out.trees[k], gram.start)
            /\ Yield(out.trees[k]) = Split(out.res[k])
            /\ Height(out.trees[k]) <= out.depth

\* Several sentences, one of them with three symbols and a derivation that
\* uses the whole depth.
C14_Witness ==
    /\ out.fn = "generator" /\ Len(out.res) >= 2
    /\ \E k \in 1..Len(out.res) :
          Len(Split(out.res[k])) >= 3 /\ Height(out.trees[k]) = out.depth

\* C15: for every n >= 0, generator(n, depth) returns the first min(n, N)
\* sentences of the depth-first, left-to-right enumeration of the N
\* sentences derivable within the depth; at most n sentences.
C15_FirstNSentences ==
    out.fn = "generator" =>
        LET all_ == generate_all(gram, <<NT(gram.start)>>, out.depth)
        IN  /\ Len(out.res) = Min(out.n, Len(all_))
            /\ \A k \in 1..Len(out.res) :
                  Split(out.res[k]) =
                      [j \in 1..Len(all_[k].frag) |-> <<all_[k].frag[j]>>]

\* C16: sampler_restricted returns a tree exactly when the number of its
\* terminal tokens (the leaves of the derivation, wherever they stand in a
\* right-hand side) lies in [min_length, max_length]: a returned tree is in
\* the window and a tree in the window is not discarded.
C16_RestrictedWindow ==
    [][ (/\ call.fn = "sampler_restricted"
         /\ Len(stack) = 1 /\ Top.prod # 0
         /\ Top.pos > Len(gram.prods[Top.prod].rhs))
        => LET length == Len(Yield(Top.tree \o <<")">>))
           IN  ret'.kind = "tree"
                  <=> (length >= call.min_length /\ length <= call.max_length)
      ]_vars

\* C18: in each mode the string sampler returns is a valid derivation tree:
\* brackets balanced, the root is the start symbol, and the children of
\* every node spell the right-hand side of a production of its nonterminal.
C18_ValidDerivationTree ==
    ret.kind = "tree" => ValidTree(gram, ret.tree, gram.start)

C18_Witness ==
    /\ ret.kind = "tree" /\ ret.mode = "depth"
    /\ gram = ArithmeticGrammar
    /\ MaxOpen(ret.tree, "S") >= 2 /\ Len(Yield(ret.tree)) >= 3

\* C19: a depth-constrained sampler call raises 'There can be no word
\* sampled!' exactly when its nonterminal is over its bound and excluding
\* the productions that recurse into it leaves no candidate; the error ends
\* the top-level call (no retry) and no tree is returned.
C19_NoWordExactlyOnExclusion ==
    [][ (call.kind = "depth" /\ stack # <<>> /\ Top.prod = 0)
        => LET lhs == Top.symbol
               excluding ==
                   /\ lhs \in DOMAIN flags.depth_constraints
                   /\ Count(depth_information, lhs) + 1
                          > flags.depth_constraints[lhs]
               remaining ==
                   {p \in Range(productions(gram, lhs)) :
                       lhs \notin RhsNonterminalsOf(gram.prods[p].rhs)}
               no_word == /\ ret'.kind = "raised"
                          /\ ret'.err = "There can be no word sampled!"
           IN  /\ no_word <=> (excluding /\ remaining = {})
               /\ no_word => stack' = <<>> /\ call' = NoCall /\ ret'.tree = <<>>
      ]_vars

\* A depth-constrained call on the arithmetic grammar whose bound on S
\* keeps the recursion (bound + 1 nested S and one T) inside the
\* interpreter's recursion limit.
C20_DepthRunning ==
    /\ gram = ArithmeticGrammar /\ call.kind = "depth"
    /\ flags.depth_constraints["S"] + 2 <= RecursionLimit

\* One top-level _convergent_sampler call (sampler in convergent mode).
C20_ConvergentRunning ==
    gram = ArithmeticGrammar /\ call.kind = "convergent" /\ call.fn = "sampler"

C20_ResultForm ==
    (/\ gram = ArithmeticGrammar /\ ret.kind = "tree"
     /\ ret.mode \in {"depth", "convergent"})
    => /\ SubSeq(ret.tree, 1, 2) = <<"(", "S">>
       /\ ret.tree[Len(ret.tree)] = ")"
       /\ \A i \in 1..Len(ret.tree) :
             ret.tree[i] \in {"S", "T", "+", "1", "2", "(", ")", " "}

\* C20: on S -> S '+' T | T, T -> '1' | '2', depth-constrained sampling with
\* a bound on S ends with a tree whatever productions are drawn, convergent
\* sampling ends, and a returned string starts with "(S", ends with ")" and
\* holds only S, T, +, 1, 2 and brackets (separated by blanks).
C20_ArithmeticTerminates ==
    /\ []C20_ResultForm
    /\ [](ret.mode = "depth" /\ gram = ArithmeticGrammar
            /\ flags.depth_constraints["S"] + 2 <= RecursionLimit
            => ret.kind = "tree")
    /\ C20_DepthRunning ~> (Idle /\ ret.kind = "tree" /\ ret.mode = "depth")
    /\ C20_ConvergentRunning ~> (Idle /\ ret.mode = "convergent")

C20_Witness ==
    /\ gram = ArithmeticGrammar
    /\ ret.kind = "tree" /\ ret.mode = "depth"
    /\ flags.depth_constraints["S"] = 1
    /\ MaxOpen(ret.tree, "S") = 2

\* C24: after any sequence of the three setters, at most one of convergent
\* and depth_constrained is true, depth_constraints is None whenever the
\* grammar is not depth-constrained, and sampler never raises 'cannot be
\* convergent and depth constrained'.
C24_ModesExclusive ==
    /\ ~(flags.convergent /\ flags.depth_constrained)
    /\ ~flags.depth_constrained =>
          ~flags.constraints_set /\ flags.depth_constraints = EmptyDict
    /\ ret.err # "Sample cannot be convergent and depth constrained"

\* A tree sampled in depth-constrained mode on a grammar that was in
\* convergent mode before (only a convergent call leaves counts behind).
C24_Witness ==
    /\ flags.depth_constrained /\ SumCounts(pcount) > 0
    /\ ret.kind = "tree" /\ ret.mode = "depth"

\* The number of calls on the current path, below the one that is drawing,
\* whose expansion used production p.
AncestorsUsing(p) ==
    Cardinality({i \in 1..(Len(stack) - 1) : stack[i].prod = p})

\* C25: when a convergent call draws its production, the usage count of
\* every production equals the number of its ancestors on the current path
\* that used it (completed siblings contribute nothing).
C25_PathLocalCounts ==
    (call.kind = "convergent" /\ stack # <<>> /\ Top.prod = 0)
    => \A p \in 1..Len(gram.prods) : Count(pcount, p) = AncestorsUsing(p)

\* C28: when a depth-constrained sampler call has finished, with a tree or
\* with an exception, every count of its depth_information mapping is back
\* at its value before the call (0: the mapping was empty).
C28_DepthInformationRestored ==
    (Idle /\ ret.mode = "depth" /\ ret.kind \in {"tree", "raised"})
    => \A x \in DOMAIN depth_information : depth_information[x] = 0

(***************************************************************************)
(* The SearchSpace state machine: two configurations of one pipeline       *)
(* space; `last` holds the arguments and the return value of the last      *)
(* call (the child configurations and the parameter objects it created,    *)
(* which get the ids Len(heap)+1, Len(heap)+2, ...).                       *)
(***************************************************************************)

\* Two configurations of one pipeline space (the same keys and parameter
\* types, distinct parameter objects), none of them sampled yet.
SpaceInit ==
    \E n \in 1..Len(KeyNames) : \E kinds \in [1..n -> Kinds] :
        /\ heap = [i \in 1..(2 * n) |->
                     [kind |-> kinds[((i - 1) % n) + 1], value |-> None,
                      origin |-> {}]]
        /\ spaces = << SearchSpace(SubSeq(KeyNames, 1, n), [i \in 1..n |-> i]),
                       SearchSpace(SubSeq(KeyNames, 1, n), [i \in 1..n |-> n + i]) >>
        /\ last = NoOp
        /\ gram = NoGrammar /\ flags = Unconstrained /\ pcount = EmptyDict
        /\ depth_information = EmptyDict /\ stack = <<>> /\ call = NoCall
        /\ ret = NoRet /\ rs = NoRs /\ out = NoOut
        /\ param = NoParam /\ nb = NoNb /\ pres = NoPres /\ bo = NoBO

\* SearchSpace.sample: every contained parameter draws a value of its domain.
Sample(s) ==
    /\ UNCHANGED gVars /\ UNCHANGED pVars
    /\ \E vs \in [Range(spaces[s].hps) -> Values] :
          heap' = [i \in 1..Len(heap) |->
                     IF i \in Range(spaces[s].hps)
                     THEN [heap[i] EXCEPT !.value = vs[i]] ELSE heap[i]]
    /\ spaces' = spaces
    /\ last' = [NoOp EXCEPT !.op = "sample", !.self = s]

\* SearchSpace.mutate(patience=patience) on spaces[s]. random.randint(0, -1)
\* raises for a space without parameters. hp.mutate() fails on its first
\* nfail calls (nfail = patience: on every call that is made); last.fails
\* records nfail, last.calls the number of hp.mutate() calls made.
Mutate(s, patience) ==
    LET self == spaces[s] IN
    /\ UNCHANGED gVars /\ UNCHANGED pVars
    /\ IF num_hps(self) = 0
       THEN /\ last' = [NoOp EXCEPT !.op = "mutate", !.self = s,
                                    !.patience = patience, !.raised = TRUE]
            /\ UNCHANGED <<heap, spaces>>
       ELSE \E idx \in 1..num_hps(self) :
            \E nfail \in IF MutateAlwaysFails(heap[get_array(self)[idx]])
                         THEN {patience} ELSE 0..patience :
            \E v \in IF nfail < patience
                     THEN Values \ {heap[get_array(self)[idx]].value}
                     ELSE {None} :
            LET hp == get_array(self)[idx]
                fresh == Len(heap) + 1
                r == smbo_mutation(self, patience, idx, nfail, fresh)
                child == SearchSpace(self.keys, r.config)
            IN  /\ heap' = heap
                /\ spaces' = [spaces EXCEPT ![s] = r.self]
                /\ last' = [NoOp EXCEPT !.op = "mutate", !.self = s,
                                        !.patience = patience, !.idx = idx,
                                        !.kids = <<child>>,
                                        !.made = IF r.mutated
                                                 THEN <<MutateChild(heap[hp], hp, v)>>
                                                 ELSE <<>>,
                                        !.calls = r.calls,
                                        !.fails = nfail,
                                        !.mutated = r.mutated]

\* SearchSpace.crossover(config2=spaces[t], probability, patience) on
\* spaces[s]; a KeyError outside the try block ends the call. The crossover
\* of the parameter under the i-th key fails on its first fails[i] calls.
Crossover(s, t, patience) ==
    LET self == spaces[s]
        config2 == spaces[t]
    IN
    /\ UNCHANGED gVars /\ UNCHANGED pVars
    /\ \E sel \in [1..Len(self.keys) -> BOOLEAN] :
       \E fails \in [1..Len(self.keys) -> 0..patience] :
       /\ \A i \in 1..Len(self.keys) :
             ~sel[i] \/ heap[self.hps[i]].kind # "other" => fails[i] = 0
       /\ LET r == simple_crossover(heap, self, config2, patience, sel, fails,
                                    Len(heap))
              child1 == SearchSpace(self.keys, r.new_config1)
              child2 == SearchSpace(self.keys, r.new_config2)
              made == [k \in 1..(2 * Len(r.made)) |->
                         [kind |-> heap[r.made[(k + 1) \div 2][1]].kind,
                          value |-> heap[r.made[(k + 1) \div 2][2 - (k % 2)]].value,
                          origin |-> Range(r.made[(k + 1) \div 2])]]
          IN  /\ UNCHANGED <<heap, spaces>>
              /\ last' = [NoOp EXCEPT !.op = "crossover", !.self = s,
                                      !.other = t, !.patience = patience,
                                      !.sel = sel,
                                      !.raised = r.raised,
                                      !.kids = IF r.raised THEN <<>>
                                               ELSE <<child1, child2>>,
                                      !.made = IF r.raised THEN <<>> ELSE made,
                                      !.log = r.log]

\* The caller works with `self` (spaces[1]) and `config2` (spaces[2]).
SpaceNext ==
    \/ \E s \in 1..Len(spaces) : Sample(s)
    \/ \E patience \in 0..MaxPatience : Mutate(1, patience)
    \/ \E patience \in 0..MaxPatience : Crossover(1, 2, patience)

SpecSpace == SpaceInit /\ [][SpaceNext]_vars

(***************************************************************************)
(* Claims about SearchSpace (checked under SpecSpace).                     *)
(***************************************************************************)

\* The parameter object with this id: one of the configurations' own, or one
\* the last call created.
Obj(id) == IF id <= Len(heap) THEN heap[id] ELSE last.made[id - Len(heap)]

\* The parameter stored under `key`, or 0 when the key is absent.
Under(space, key) == IF HasKey(space, key) THEN Lookup(space, key) ELSE 0

\* hp is the parent parameter p itself or a child derived from it.
IsOrFrom(hp, p) == hp # 0 /\ (hp = p \/ p \in Obj(hp).origin)

LastReturned == last.op \in {"mutate", "crossover"} /\ ~last.raised

\* Every parameter is a FloatHyperparameter or a CategoricalParameter.
NumericalOnly == \A i \in 1..Len(heap) : heap[i].kind \in {"float", "categorical"}

\* C2: every SearchSpace returned by mutate or crossover has exactly the keys
\* of the parent, in the parent's order, and under each key the parents'
\* parameter for that key or a child derived from it. (Stated for calls
\* with a positive patience on float and categorical parameters.)
C2_ChildKeepsKeys ==
    LastReturned /\ last.patience > 0 /\ NumericalOnly =>
        \A k \in 1..Len(last.kids) :
            LET parent == spaces[last.self]
                donor == IF last.op = "crossover" /\ k = 2
                         THEN spaces[last.other] ELSE parent
                child == last.kids[k]
            IN  /\ child.keys = parent.keys
                /\ \A i \in 1..Len(parent.keys) :
                      IsOrFrom(Under(child, parent.keys[i]),
                               Under(donor, parent.keys[i]))

\* C3: in crossover, a selected parameter without a crossover implementation
\* (float: NotImplementedError, categorical: an empty stub) is a silent
\* no-op: child 1 holds self's parameter and child 2 holds config2's
\* parameter under that key. (Stated for calls with a positive patience.)
C3_UnimplementedIsNoOp ==
    last.op = "crossover" /\ ~last.raised /\ last.patience > 0 =>
        \A i \in 1..Len(spaces[last.self].keys) :
            LET self == spaces[last.self]
                key == self.keys[i]
            IN  last.sel[i] /\ heap[self.hps[i]].kind \in {"float", "categorical"}
                => /\ Under(last.kids[1], key) = self.hps[i]
                   /\ Under(last.kids[2], key) = Under(spaces[last.other], key)

\* C4: in crossover, every selected parameter whose crossover raises is
\* retried up to `patience` times for that parameter (each parameter starts
\* with the full patience), and once the attempts are used up both children
\* retain the parents' parameter for that key. (Stated for calls with a
\* positive patience on float and categorical parameters.)
C4_PatiencePerParameter ==
    last.op = "crossover" /\ ~last.raised /\ last.patience > 0 /\ NumericalOnly =>
        \A i \in 1..Len(last.log) :
            LET self == spaces[last.self]
                e == last.log[i]
            IN  last.sel[i] =>
                  /\ e.given = last.patience
                  /\ e.appended = "none" =>
                        /\ Under(last.kids[1], e.key) = self.hps[i]
                        /\ Under(last.kids[2], e.key)
                              = Under(spaces[last.other], e.key)

\* The parameter mutate selected.
Selected == spaces[last.self].hps[last.idx]

\* C5 as stated: mutate with patience=0 on a space whose selected
\* parameter's mutate always fails raises instead of returning.
C5_ZeroPatienceRaises ==
    last.op = "mutate" /\ last.patience = 0 /\ last.idx > 0
        /\ MutateAlwaysFails(heap[Selected])
    => last.raised

\* C5 amended: mutate with patience=0 on a space whose selected parameter's
\* mutate always fails does not raise; it returns, without calling the
\* parameter's mutate, a configuration with the parent's keys and the
\* parent's parameter objects.
C5_ZeroPatienceReturnsParent ==
    last.op = "mutate" /\ last.patience = 0 /\ last.idx > 0
        /\ MutateAlwaysFails(heap[Selected])
    => /\ ~last.raised
       /\ last.calls = 0
       /\ last.kids = <<spaces[last.self]>>

C5_Witness ==
    /\ last.op = "mutate" /\ last.patience = 0 /\ last.idx > 0
    /\ MutateAlwaysFails(heap[Selected])
    /\ Len(last.kids) = 1

\* C6: the SearchSpace returned by mutate holds, under every key other than
\* the selected one, the very same parameter object as the parent, with its
\* value as before the call, and the parent's own mapping is unchanged.
C6_MutateFrame ==
    [][ last'.op = "mutate" /\ ~last'.raised =>
          LET parent == spaces[last'.self]
              child == last'.kids[1]
          IN  /\ spaces'[last'.self] = parent
              /\ child.keys = parent.keys
              /\ \A i \in 1..Len(parent.keys) :
                    i # last'.idx =>
                       /\ child.hps[i] = parent.hps[i]
                       /\ heap'[parent.hps[i]] = heap[parent.hps[i]]
      ]_vars

C6_Witness ==
    /\ last.op = "mutate" /\ last.mutated
    /\ Len(spaces[last.self].keys) = 2
    /\ last.kids[1].hps[last.idx] > Len(heap)
    /\ heap[spaces[last.self].hps[3 - last.idx]].value # None

\* C26: SearchSpace.mutate calls the mutate of the selected parameter at
\* most `patience` times and stops at the first call that succeeds; the
\* child of that call replaces exactly the selected position; an exception
\* of a call is a failed attempt (it never leaves SearchSpace.mutate); no
\* other parameter is mutated or replaced.
C26_MutateRetries ==
    last.op = "mutate" /\ last.idx > 0 =>
        LET parent == spaces[last.self]
            child == last.kids[1]
        IN  /\ ~last.raised
            /\ last.calls <= last.patience
            /\ last.calls = Min(last.fails + 1, last.patience)
            /\ last.mutated <=> last.fails < last.patience
            /\ Len(last.made) = (IF last.mutated THEN 1 ELSE 0)
            /\ \A i \in 1..Len(parent.hps) :
                  IF last.mutated /\ i = last.idx
                  THEN /\ child.hps[i] = Len(heap) + 1
                       /\ Obj(child.hps[i]).origin = {Selected}
                  ELSE child.hps[i] = parent.hps[i]

\* A mutate that succeeded on its second call, with two parameters.
C26_Witness ==
    /\ last.op = "mutate" /\ last.mutated
    /\ last.fails = 1 /\ last.calls = 2
    /\ Len(spaces[last.self].keys) = 2

(***************************************************************************)
(* The parameter state machine: one parameter object, the calls a caller   *)
(* makes on it, and the loop of CategoricalParameter._get_neighbours step  *)
(* by step.                                                                *)
(***************************************************************************)

Arithmetics == {"exact", "float"}

\* The parameter objects under test, right after construction.
Parameters ==
    {FloatHyperparameter(d.lower, d.upper, d.log, a) :
        d \in FloatDomains, a \in Arithmetics}
    \cup {CategoricalParameter(c, a) : c \in ChoiceLists, a \in Arithmetics}
    \cup {CategoricalParameter(LongChoiceList, "float")}

ParamInit ==
    /\ heap = <<>> /\ spaces = <<>> /\ last = NoOp
    /\ gram = NoGrammar /\ flags = Unconstrained /\ pcount = EmptyDict
    /\ depth_information = EmptyDict /\ stack = <<>> /\ call = NoCall
    /\ ret = NoRet /\ rs = NoRs /\ out = NoOut
    /\ param \in Parameters
    /\ nb = NoNb /\ pres = NoPres /\ bo = NoBO

\* What the calls on the parameter object leave alone.
restVars == <<heap, spaces, last, gram, flags, pcount, depth_information,
              stack, call, ret, rs, out, bo>>

NbIdle == nb.fn = "none"

\* param.sample().
ParamSample ==
    /\ UNCHANGED restVars
    /\ NbIdle /\ nb' = nb
    /\ pres' = [NoPres EXCEPT !.fn = "sample"]
    /\ IF param.kind = "float"
       THEN \E value \in IF param.log THEN LogUniformDraws(param)
                                     ELSE UniformDraws(param) :
               param' = Float_sample(param, value)
       ELSE \E idx \in 0..(num_choices(param) - 1) :
               param' = Categorical_sample(param, idx)

\* The value of the other parameter object a caller passes as `parent`.
ParentValues(self) ==
    IF self.kind = "float" THEN {self.upper} ELSE {self.choices[1]}

\* parent = None (PyNone here) makes mutate compare with self.
Compared(parent, self) == IF parent = PyNone THEN self.value ELSE parent

\* FloatHyperparameter.mutate(parent, mutation_strategy). local_search
\* runs _get_neighbours(num_neighbours=1): self is transformed in place,
\* the accepted draw n_val becomes the neighbour, self is transformed back.
FloatMutate(strategy, parent) ==
    /\ UNCHANGED restVars
    /\ NbIdle /\ nb' = nb
    /\ param.kind = "float"
    /\ IF strategy = "simple"
       THEN \E value \in IF param.log THEN LogUniformDraws(param)
                                     ELSE UniformDraws(param) :
               LET child == Float_sample(Float_copy(param), value)
               IN  /\ param' = param
                   /\ pres' = MutateOutcome(strategy, Compared(parent, param),
                                            child.value)
       ELSE IF param.value = PyNone
       THEN /\ param' = param
            /\ pres' = [NoPres EXCEPT !.fn = "mutate", !.strategy = strategy,
                                      !.raised = "TypeError"]
       ELSE \E n_val \in NormalDraws(param) :
               /\ ~Rejected(n_val)
               /\ LET transformed == Float_transform(param)
                      neighbour ==
                          Float_inv_transform(
                              [Float_copy(param) EXCEPT !.value = n_val])
                      restored == Float_inv_transform(transformed)
                  IN  /\ param' = restored
                      /\ pres' = MutateOutcome(strategy,
                                               Compared(parent, restored),
                                               neighbour.value)

\* CategoricalParameter.mutate(parent, "simple").
CategoricalMutateSimple(parent) ==
    /\ UNCHANGED restVars
    /\ NbIdle /\ nb' = nb
    /\ param.kind = "categorical"
    /\ param' = param
    /\ \E idx \in 0..(num_choices(param) - 1) :
          LET child == Categorical_sample(Categorical_copy(param), idx)
          IN  pres' = MutateOutcome("simple", Compared(parent, param),
                                    child.value)

\* The start of CategoricalParameter._get_neighbours(num_neighbours), lines
\* 66-70, called directly or by mutate(parent, "local_search") (with 1).
get_neighbours(caller, parent, num_neighbours) ==
    /\ UNCHANGED restVars
    /\ NbIdle
    /\ param.kind = "categorical"
    /\ caller = "mutate" => num_neighbours = 1
    /\ caller = "direct" => parent = PyNone
    /\ nb' = [fn |-> "_get_neighbours", caller |-> caller, parent |-> parent,
              num_neighbours |-> num_neighbours, idx |-> 0, seen |-> {},
              neighbours |-> <<>>]
    /\ pres' = NoPres
    /\ param' = param

\* `if choice == self.value: continue`, else the neighbour is appended.
Visit(f, choice) ==
    IF ValueEq(choice, param.value) THEN f
    ELSE [f EXCEPT !.neighbours = Append(@, choice)]

\* One round of the while loop, lines 72-82. The shuffled copy shows a
\* position of self.choices it has not shown before; IndexError past its
\* end.
Iterate ==
    /\ UNCHANGED restVars
    /\ ~NbIdle /\ Len(nb.neighbours) < nb.num_neighbours
    /\ param' = param
    /\ IF nb.num_neighbours > num_choices(param) - 1
       THEN /\ \E i \in 1..num_choices(param) :
                  nb' = Visit(nb, param.choices[i])
            /\ pres' = pres
       ELSE IF nb.idx >= num_choices(param)
       THEN /\ nb' = NoNb
            /\ pres' = [NoPres EXCEPT
                           !.fn = IF nb.caller = "mutate" THEN "mutate"
                                  ELSE "_get_neighbours",
                           !.strategy = IF nb.caller = "mutate"
                                        THEN "local_search" ELSE "",
                           !.num_neighbours = nb.num_neighbours,
                           !.idx = nb.idx,
                           !.raised = "IndexError"]
       ELSE /\ \E i \in (1..num_choices(param)) \ nb.seen :
                  nb' = Visit([nb EXCEPT !.idx = @ + 1, !.seen = @ \cup {i}],
                              param.choices[i])
            /\ pres' = pres

\* `return neighbours`, to the caller or into mutate (lines 53-60).
NbReturn ==
    /\ UNCHANGED restVars
    /\ ~NbIdle /\ Len(nb.neighbours) = nb.num_neighbours
    /\ nb' = NoNb
    /\ param' = param
    /\ pres' = IF nb.caller = "mutate"
               THEN MutateOutcome("local_search", Compared(nb.parent, param),
                                  nb.neighbours[1])
               ELSE [NoPres EXCEPT !.fn = "_get_neighbours",
                                   !.num_neighbours = nb.num_neighbours,
                                   !.idx = nb.idx,
                                   !.neighbours = nb.neighbours]

\* _transform() followed by _inv_transform() on a copy that holds the
\* value of param.
RoundTrip ==
    /\ UNCHANGED restVars
    /\ NbIdle /\ nb' = nb
    /\ param.value # PyNone
    /\ param' = param
    /\ LET transformed == IF param.kind = "float" THEN Float_transform(param)
                          ELSE Categorical_transform(param)
           back == IF param.kind = "float"
                   THEN Float_inv_transform(transformed)
                   ELSE Categorical_inv_transform(transformed)
       IN  pres' = [NoPres EXCEPT !.fn = "round_trip",
                                  !.before = param.value,
                                  !.between = transformed.value,
                                  !.after = back.value]

\* The caller goes on with the child mutate returned.
Adopt ==
    /\ UNCHANGED restVars
    /\ NbIdle /\ nb' = nb
    /\ pres.fn = "mutate" /\ pres.raised = ""
    /\ param' = [param EXCEPT !.value = pres.child]
    /\ pres' = NoPres

ParamNext ==
    \/ ParamSample
    \/ \E strategy \in {"simple", "local_search"} :
       \E parent \in {PyNone} \cup ParentValues(param) :
          FloatMutate(strategy, parent)
    \/ \E parent \in {PyNone} \cup ParentValues(param) :
          CategoricalMutateSimple(parent)
    \/ \E caller \in {"mutate", "direct"} :
       \E parent \in {PyNone} \cup ParentValues(param) :
       \E num_neighbours \in 1..MaxNeighbours :
          get_neighbours(caller, parent, num_neighbours)
    \/ Iterate
    \/ NbReturn
    \/ RoundTrip
    \/ Adopt

SpecParam == ParamInit /\ [][ParamNext]_vars

\* The loop of _get_neighbours is not preempted, and a draw that differs
\* from the current value is made sooner or later when there is one.
FairSpecParam ==
    ParamInit /\ [][ParamNext]_vars /\ WF_vars(Iterate) /\ WF_vars(NbReturn)

(***************************************************************************)
(* Claims about the parameter objects (checked under SpecParam and         *)
(* FairSpecParam).                                                         *)
(***************************************************************************)

\* v is a value of the domain of the parameter.
InDomain(self, v) ==
    IF self.kind = "float"
    THEN v # PyNone /\ QLe(self.lower, v) /\ QLe(v, self.upper)
    ELSE v \in Range(self.choices)

\* C21: for float and categorical parameters and both strategies, a child
\* that mutate returns has a value different from the value of the parent
\* it was compared with (self when no parent was passed); when the two are
\* equal mutate raises.
C21_ChildDiffers ==
    (pres.fn = "mutate" /\ pres.raised = "")
    => /\ pres.child # PyNone
       /\ ~ValueEq(pres.child, pres.compared)

\* The neighbour of a float parameter came out equal to the parent and
\* mutate raised.
C21_Witness ==
    /\ pres.fn = "mutate" /\ pres.raised = "ValueError"
    /\ pres.strategy = "local_search" /\ param.kind = "float"
    /\ ValueEq(pres.compared, param.value)

\* C22: after any sequence of sample and mutate calls the value of a
\* parameter that was sampled lies in its domain, and so does every child
\* mutate returns: [lower, upper] for a float parameter, the choices for a
\* categorical one.
C22_ValuesInDomain ==
    /\ param.value # PyNone => InDomain(param, param.value)
    /\ (pres.fn = "mutate" /\ pres.raised = "")
          => InDomain(param, pres.child)

\* C23: for a float parameter with a value in [lower, upper], _transform
\* yields a value in [0, 1] and _inv_transform restores the value (in exact
\* arithmetic); for a categorical parameter with a value of its choices
\* the two restore the same choice.
C23_RoundTrip ==
    (pres.fn = "round_trip" /\ InDomain(param, pres.before))
    => IF param.kind = "float"
       THEN /\ QLe(Num(0), pres.between) /\ QLe(pres.between, Num(1))
            /\ param.arith = "exact" => pres.after = pres.before
       ELSE pres.after = pres.before

\* C27: a _get_neighbours call on a categorical parameter ends without an
\* error and returns exactly num_neighbours neighbours, each a choice other
\* than the current value; for num_neighbours <= num_choices - 1 they come
\* from one pass over the shuffled list (each position read at most once).
C27_NeighboursReturned ==
    /\ [](pres.fn = "_get_neighbours"
            => /\ pres.raised = ""
               /\ Len(pres.neighbours) = pres.num_neighbours
               /\ \A k \in 1..Len(pres.neighbours) :
                     /\ pres.neighbours[k] \in Range(param.choices)
                     /\ ~ValueEq(pres.neighbours[k], param.value)
               /\ pres.idx <= num_choices(param))
    /\ (~NbIdle /\ nb.caller = "direct")
          ~> (NbIdle /\ pres.fn = "_get_neighbours")

(***************************************************************************)
(* The proposal loop of BayesianOptimization.get_config_and_ids in the     *)
(* model phase with pending evaluations (optimizer_hierarchy.py lines      *)
(* 210-232). bo = [fn, patience, pending, pending_evaluation_ids,          *)
(* _patience, proposals, broke, config, kind, raised]; a configuration is  *)
(* the list its id property returns.                                       *)
(***************************************************************************)

\* The id lists of the configurations the acquisition optimizer proposes
\* and of the pending evaluations (SearchSpace.id, one entry per
\* parameter).
ConfigIds == {<<"a">>, <<"b">>, <<"a", "b">>, <<"a-b">>}

\* "-".join(map(str, id)) for a list of one or more entries.
RECURSIVE Fingerprint(_)
Fingerprint(id) ==
    IF Len(id) = 1 THEN id[1]
    ELSE id[1] \o "-" \o Fingerprint(Tail(id))

\* self.pipeline_space.copy().sample(patience=..., use_user_priors=True):
\* SearchSpace defines no copy (and its sample takes no arguments and
\* returns None), the attribute lookup raises.
pipeline_space_copy_sample == [raised |-> "AttributeError", config |-> PyNone]

BOInit ==
    /\ heap = <<>> /\ spaces = <<>> /\ last = NoOp
    /\ gram = NoGrammar /\ flags = Unconstrained /\ pcount = EmptyDict
    /\ depth_information = EmptyDict /\ stack = <<>> /\ call = NoCall
    /\ ret = NoRet /\ rs = NoRs /\ out = NoOut
    /\ param = NoParam /\ nb = NoNb /\ pres = NoPres
    /\ \E patience \in 0..MaxBOPatience :
       \E pending \in (SUBSET ConfigIds) \ {{}} :
          bo = [fn |-> "init", patience |-> patience, pending |-> pending,
                pending_evaluation_ids |-> {}, _patience |-> 0,
                proposals |-> 0, broke |-> FALSE, config |-> PyNone,
                kind |-> "", raised |-> ""]

\* What get_config_and_ids leaves alone.
boRest == <<heap, spaces, last, gram, flags, pcount, depth_information,
            stack, call, ret, rs, out, param, nb, pres>>

\* The branch of line 210 is entered: the fingerprints of the pending
\* evaluations are collected and _patience is set (lines 211-216).
EnterModelPhase ==
    /\ UNCHANGED boRest
    /\ bo.fn = "init"
    /\ bo' = [bo EXCEPT !.fn = "loop",
                        !.pending_evaluation_ids =
                            {Fingerprint(id) : id \in bo.pending},
                        !._patience = bo.patience]

\* One round of `while _patience > 0` (lines 217-227) with the proposal
\* the acquisition optimizer returns.
Propose(config) ==
    /\ UNCHANGED boRest
    /\ bo.fn = "loop" /\ ~bo.broke /\ bo._patience > 0
    /\ bo' = IF Fingerprint(config) \notin bo.pending_evaluation_ids
             THEN [bo EXCEPT !.config = config, !.kind = "proposal",
                             !.proposals = @ + 1, !.broke = TRUE]
             ELSE [bo EXCEPT !.config = config, !.kind = "proposal",
                             !.proposals = @ + 1, !._patience = @ - 1]

\* After the loop (lines 228-239): the random sample when _patience is 0,
\* then the return.
Finish ==
    /\ UNCHANGED boRest
    /\ bo.fn = "loop" /\ (bo.broke \/ bo._patience <= 0)
    /\ bo' = IF bo._patience = 0
             THEN [bo EXCEPT !.fn = "done",
                             !.config = pipeline_space_copy_sample.config,
                             !.kind = IF pipeline_space_copy_sample.raised = ""
                                      THEN "fresh" ELSE "",
                             !.raised = pipeline_space_copy_sample.raised]
             ELSE [bo EXCEPT !.fn = "done"]

BONext ==
    \/ EnterModelPhase
    \/ \E config \in ConfigIds : Propose(config)
    \/ Finish

SpecBO == BOInit /\ [][BONext]_vars

\* C29: in the model phase with pending evaluations at most `patience`
\* proposals are drawn, and the call returns either a proposal whose
\* fingerprint is not the fingerprint of a pending evaluation or, after
\* `patience` proposals were all rejected as pending, a freshly sampled
\* configuration; a proposal with the fingerprint of a pending evaluation
\* is never returned.
C29_PendingNeverReturned ==
    bo.fn = "done"
    => /\ bo.proposals <= bo.patience
       /\ bo.raised = ""
       /\ \/ /\ bo.kind = "proposal"
             /\ Fingerprint(bo.config) \notin bo.pending_evaluation_ids
          \/ /\ bo.kind = "fresh"
             /\ bo.proposals = bo.patience

====
